---- MODULE Spec2Model ----
(***************************************************************************)
(* A model of the USB Mass Storage class host driver                       *)
(* (usb/usb_host_msc/src/msc_host.c).                                      *)
(*                                                                         *)
(* Specifications given over one set of variables:                         *)
(*   SpecXfer  the Transfer Engine: msc_bulk_transfer,                     *)
(*             msc_bulk_transfer_zero_cpy, msc_control_transfer,           *)
(*             wait_for_transfer_done and transfer_callback, against a     *)
(*             transport that completes, or after halt+flush retires, the  *)
(*             one transfer in flight.                                     *)
(*   Spec      the Device Registry and lifecycle: msc_host_install,        *)
(*             msc_host_uninstall, msc_host_install_device,                *)
(*             msc_host_uninstall_device, msc_deinit_device,               *)
(*             event_handler_task and msc_host_handle_events, called from  *)
(*             concurrent contexts.                                        *)
(*   FairSpec  Spec with every context scheduled.                          *)
(*   SpecDispatch  client_event_cb and find_msc_device beside the device   *)
(*             operations, on an installed driver.                         *)
(*   SpecReady msc_wait_for_ready_state.                                   *)
(*   SpecParse find_msc_interface and extract_config_from_descriptor on    *)
(*             bounded configuration descriptors.                          *)
(***************************************************************************)
EXTENDS Integers, Sequences, FiniteSets, TLC

\* A null pointer or handle; blocks, handles and tasks are numbered from 1.
NULL == 0

(***************************************************************************)
(* Transfer Engine: program constants and input sets                       *)
(***************************************************************************)

\* #define DEFAULT_XFER_SIZE (64)
DEFAULT_XFER_SIZE == 64

\* xfer->timeout_ms = 5000
XFER_TIMEOUT_MS == 5000

\* USB_B_ENDPOINT_ADDRESS_EP_DIR_MASK (bit 7 of bEndpointAddress)
EP_DIR_MASK == 128

\* Request sizes tried by the callers: empty, short, exactly the scratch
\* capacity, and one more than the capacity.
Sizes == {0, 13, DEFAULT_XFER_SIZE, DEFAULT_XFER_SIZE + 1}

\* Bulk-in max packet sizes a configuration descriptor can carry.
MpsSet == {8, 64, 512}

\* usb_transfer_status_t values the transport reports for a transfer that
\* ran to its end; a flushed transfer is retired as CANCELED.
NaturalStatuses == {"COMPLETED", "STALL", "ERROR"}
Statuses == NaturalStatuses \cup {"CANCELED"}

VARIABLES
    xfer,           \* device->xfer: the one usb_transfer_t of the device
    transfer_done,  \* device->transfer_done: binary semaphore (0 or 1)
    inflight,       \* transport: "none", "pending" or "flushed"
    config,         \* device->config (msc_config_t)
    tpc,            \* position of the calling context in the Transfer Engine
    call,           \* arguments and locals of the current (or last) call
    obs             \* history of the current call (halts, flushes, ...)

xvars == <<xfer, transfer_done, inflight, config, tpc, call, obs>>

\* is_in_endpoint
is_in_endpoint(endpoint) == (endpoint \div EP_DIR_MASK) % 2 = 1

\* usb_round_up_to_mps as called at msc_host.c:482 and :523
usb_round_up_to_mps(num_bytes, mps) ==
    IF num_bytes <= 0 \/ mps <= 0 THEN 0
    ELSE ((num_bytes + mps - 1) \div mps) * mps

\* endpoint = (ep == MSC_EP_IN) ? bulk_in_ep : bulk_out_ep
EndpointOf(ep) == IF ep = "MSC_EP_IN" THEN config.bulk_in_ep ELSE config.bulk_out_ep

NoCall ==
    [op |-> "none", size |-> 0, endpoint |-> 0, status |-> "COMPLETED", wn |-> 0,
     backup_buffer |-> "scratch", backup_size |-> 0, ret |-> "ESP_OK",
     to_buffer |-> 0, to_caller |-> 0]

NoObs ==
    [submitted |-> FALSE, timedOut |-> FALSE, halts |-> 0, flushes |-> 0,
     actual |-> "none", readBeforeDone |-> FALSE,
     pre_buffer |-> "scratch", pre_size |-> 0]

\* The state of the Transfer Engine for a freshly installed device: the
\* transfer object was allocated with DEFAULT_XFER_SIZE bytes (line 370), the
\* semaphore was created empty (line 366).  The status field holds whatever the
\* previous SCSI command of the installation left in it.
XferInit ==
    /\ xfer \in [status : Statuses, data_buffer : {"scratch"},
                 data_buffer_size : {DEFAULT_XFER_SIZE}, num_bytes : {0},
                 bEndpointAddress : {0}, timeout_ms : {0}]
    /\ transfer_done = 0
    /\ inflight = "none"
    /\ config \in [iface_num : {0}, bulk_in_ep : {129}, bulk_out_ep : {2},
                   bulk_in_mps : MpsSet]
    /\ tpc = "idle"
    /\ call = NoCall
    /\ obs = NoObs

\* The state the Transfer Engine variables keep under the lifecycle
\* specification, which does not move them.
XferIdle ==
    /\ xfer = [status |-> "COMPLETED", data_buffer |-> "scratch",
               data_buffer_size |-> DEFAULT_XFER_SIZE, num_bytes |-> 0,
               bEndpointAddress |-> 0, timeout_ms |-> 0]
    /\ transfer_done = 0
    /\ inflight = "none"
    /\ config = [iface_num |-> 0, bulk_in_ep |-> 129, bulk_out_ep |-> 2,
                 bulk_in_mps |-> 64]
    /\ tpc = "idle"
    /\ call = NoCall
    /\ obs = NoObs

(***************************************************************************)
(* Lifecycle variables (defined with the Device Registry below)            *)
(***************************************************************************)

\* Caller contexts (tasks of the application calling the public API).
NumCallers == 2
Callers == 1..NumCallers

\* Heap blocks that can hold an msc_driver_t, an msc_device_t, and the tasks
\* xTaskCreatePinnedToCore can create; calloc and task creation fail when none
\* is left (and may fail before that).
NumDrv == 2
DrvSlots == 1..NumDrv
NumDev == 1
DevSlots == 1..NumDev
NumTasks == 1
TaskSlots == 1..NumTasks

\* The sections between MSC_ENTER_CRITICAL and MSC_EXIT_CRITICAL (msc_lock) are
\* single steps: nothing runs between their statements.
VARIABLES
    s_msc_driver,   \* static msc_driver_t *s_msc_driver: NULL or a driver block
    drv,            \* the msc_driver_t blocks
    allsem,         \* the all_events_handled semaphores: -1 none, else the count
    clients,        \* transport: the event clients (registered, unblocked)
    dev,            \* the msc_device_t blocks
    usb,            \* transport: open device handles, claimed interfaces, transfers
    tasks,          \* the event_handler_task instances
    pc,             \* position of each caller context
    loc,            \* arguments, locals and history of each caller's call
    handles,        \* device handles install-device gave to the application
    published,      \* history: driver blocks published and not yet freed
    fault           \* "none", or the fault that stopped the program

lvars == <<s_msc_driver, drv, allsem, clients, dev, usb, tasks, pc, loc, handles, published, fault>>

\* The Event Dispatcher inside client_event_cb, and the user callback.
VARIABLES
    disp,           \* client_event_cb: position, the event, the device looked up
    cbk             \* the msc_host_event_t the user callback was last invoked with

dvars == <<disp, cbk>>

\* The Readiness Protocol: one call of msc_wait_for_ready_state.
VARIABLES
    ready           \* position, argument, locals and history of the call

\* The Descriptor Parser: one classification or extraction.
VARIABLES
    parse           \* the descriptor given, the operation applied, its outcome

avars == <<ready, parse>>

nvars == <<dvars, avars>>

vars == <<xvars, lvars, nvars>>

(***************************************************************************)
(* Transfer Engine: operations                                             *)
(***************************************************************************)

\* Errors usb_host_transfer_submit / usb_host_transfer_submit_control return.
SubmitErrors == {"ESP_ERR_INVALID_ARG", "ESP_ERR_NOT_FINISHED"}

\* lines 488-492, 532-536, 552-557: the fields every submission sets
SetupXfer(x, endpoint, nbytes) ==
    [x EXCEPT !.bEndpointAddress = endpoint, !.num_bytes = nbytes,
              !.timeout_ms = XFER_TIMEOUT_MS]

\* lines 529-530: *ptr = data; *siz = actual_size
ZeroCpySubstitute(x, actual_size) ==
    [x EXCEPT !.data_buffer = "user", !.data_buffer_size = actual_size]

\* A restore that puts back the buffer pointer and forgets the size.
ZeroCpyRestore_PointerOnly(x, backup_buffer, backup_size) ==
    [x EXCEPT !.data_buffer = backup_buffer]

\* lines 544-545: *ptr = backup_buffer; *siz = backup_size
ZeroCpyRestore(x, backup_buffer, backup_size) ==
    [x EXCEPT !.data_buffer = backup_buffer, !.data_buffer_size = backup_size]

\* A byte count that is not rounded for an IN endpoint.
SubmitBytes_Exact(endpoint, size) == size

\* lines 481-486 and 522-526: the byte count submitted
SubmitBytes(endpoint, size) ==
    IF is_in_endpoint(endpoint) THEN usb_round_up_to_mps(size, config.bulk_in_mps)
    ELSE size

\* line 484: the bytes msc_bulk_transfer copies from the caller's data to the
\* head of the transfer buffer before the submission
CopyToBuffer(endpoint, size) == IF is_in_endpoint(endpoint) THEN 0 ELSE size

\* lines 502-504: the bytes msc_bulk_transfer copies from the head of the
\* transfer buffer to the caller's data when it returns ret
CopyToCaller(op, endpoint, size, ret) ==
    IF op = "bulk" /\ ret = "ESP_OK" /\ is_in_endpoint(endpoint) THEN size ELSE 0

NewObs == [NoObs EXCEPT !.pre_buffer = xfer.data_buffer,
                        !.pre_size = xfer.data_buffer_size]

\* msc_bulk_transfer, lines 477-494: size check, byte count, transfer fields,
\* submission.
BulkCall(size, ep) ==
    /\ tpc = "idle"
    /\ LET endpoint == EndpointOf(ep)
           c0 == [NoCall EXCEPT !.op = "bulk", !.size = size, !.endpoint = endpoint]
       IN IF ~(size <= xfer.data_buffer_size)
          THEN /\ call' = [c0 EXCEPT !.ret = "ESP_ERR_INVALID_SIZE"]
               /\ obs' = NewObs
               /\ UNCHANGED <<xfer, inflight, tpc>>
          ELSE /\ xfer' = SetupXfer(xfer, endpoint, SubmitBytes(endpoint, size))
               /\ \E r \in {"ESP_OK"} \cup SubmitErrors :
                     IF r = "ESP_OK"
                     THEN /\ inflight' = "pending"
                          /\ tpc' = "w_read"
                          /\ call' = [c0 EXCEPT !.wn = 1,
                                     !.to_buffer = CopyToBuffer(endpoint, size)]
                          /\ obs' = [NewObs EXCEPT !.submitted = TRUE]
                     ELSE /\ call' = [c0 EXCEPT !.ret = r,
                                     !.to_buffer = CopyToBuffer(endpoint, size)]
                          /\ obs' = NewObs
                          /\ UNCHANGED <<inflight, tpc>>
    /\ UNCHANGED <<transfer_done, config, lvars, nvars>>

\* msc_bulk_transfer_zero_cpy, lines 511-538 (and 543-546 when the submission
\* fails): DMA check, backup, substitution, transfer fields, submission.
ZeroCpyCall(size, ep, dma_capable) ==
    /\ tpc = "idle"
    /\ LET endpoint == EndpointOf(ep)
           actual_size == SubmitBytes(endpoint, size)
           c0 == [NoCall EXCEPT !.op = "zero", !.size = size, !.endpoint = endpoint,
                                !.backup_buffer = xfer.data_buffer,
                                !.backup_size = xfer.data_buffer_size]
           x1 == SetupXfer(ZeroCpySubstitute(xfer, actual_size), endpoint, actual_size)
       IN IF ~dma_capable
          THEN /\ call' = [NoCall EXCEPT !.op = "zero", !.size = size, !.ret = "ESP_FAIL"]
               /\ obs' = NewObs
               /\ UNCHANGED <<xfer, inflight, tpc>>
          ELSE \E r \in {"ESP_OK"} \cup SubmitErrors :
                 IF r = "ESP_OK"
                 THEN /\ xfer' = x1
                      /\ inflight' = "pending"
                      /\ tpc' = "w_read"
                      /\ call' = [c0 EXCEPT !.wn = 1]
                      /\ obs' = [NewObs EXCEPT !.submitted = TRUE]
                 ELSE /\ xfer' = ZeroCpyRestore(x1, c0.backup_buffer, c0.backup_size)
                      /\ call' = [c0 EXCEPT !.ret = r]
                      /\ obs' = NewObs
                      /\ UNCHANGED <<inflight, tpc>>
    /\ UNCHANGED <<transfer_done, config, lvars, nvars>>

\* msc_control_transfer, lines 551-559
ControlCall(len) ==
    /\ tpc = "idle"
    /\ LET c0 == [NoCall EXCEPT !.op = "ctrl", !.size = len]
       IN /\ xfer' = SetupXfer(xfer, 0, len)
          /\ \E r \in {"ESP_OK"} \cup SubmitErrors :
                IF r = "ESP_OK"
                THEN /\ inflight' = "pending"
                     /\ tpc' = "w_read"
                     /\ call' = [c0 EXCEPT !.wn = 1]
                     /\ obs' = [NewObs EXCEPT !.submitted = TRUE]
                ELSE /\ call' = [c0 EXCEPT !.ret = r]
                     /\ obs' = NewObs
                     /\ UNCHANGED <<inflight, tpc>>
    /\ UNCHANGED <<transfer_done, config, lvars, nvars>>

\* lines 495-500 and 539-541: the error a bulk call returns once its waits are
\* over; first is the value of the first wait_for_transfer_done, second the
\* value of the second one.
BulkResult(wn, r) ==
    IF wn = 1 THEN "ESP_OK"
    ELSE IF r = "STALL" THEN "ESP_ERR_MSC_STALL" ELSE "ESP_ERR_MSC_INTERNAL"

\* line 560
ControlResult(r) == IF r = "COMPLETED" THEN "ESP_OK" ELSE "ESP_ERR_MSC_INTERNAL"

\* What the caller does with the value r that wait_for_transfer_done returned:
\* lines 495-506 (bulk), 539-546 (zero copy), 560 (control).  A bulk call whose
\* first wait did not return COMPLETED calls wait_for_transfer_done again.
AfterWait(r) ==
    IF call.op # "ctrl" /\ call.wn = 1 /\ r # "COMPLETED"
    THEN /\ tpc' = "w_read"
         /\ call' = [call EXCEPT !.wn = 2]
         /\ xfer' = xfer
    ELSE /\ tpc' = "idle"
         /\ LET ret == IF call.op = "ctrl" THEN ControlResult(r)
                       ELSE BulkResult(call.wn, r)
            IN call' = [call EXCEPT !.ret = ret,
                                    !.to_caller = CopyToCaller(call.op, call.endpoint,
                                                               call.size, ret)]
         /\ xfer' = IF call.op = "zero"
                    THEN ZeroCpyRestore(xfer, call.backup_buffer, call.backup_size)
                    ELSE xfer

\* wait_for_transfer_done, line 462: status = xfer->status, read before the
\* semaphore is taken.
WaitRead ==
    /\ tpc = "w_read"
    /\ tpc' = "w_take"
    /\ call' = [call EXCEPT !.status = xfer.status]
    /\ obs' = IF call.wn = 1 /\ inflight # "none"
              THEN [obs EXCEPT !.readBeforeDone = TRUE] ELSE obs
    /\ UNCHANGED <<xfer, transfer_done, inflight, config, lvars, nvars>>

\* line 463 with received == pdTRUE, then line 472: return status
WaitTake ==
    /\ tpc = "w_take"
    /\ transfer_done = 1
    /\ transfer_done' = 0
    /\ AfterWait(call.status)
    /\ UNCHANGED <<inflight, config, obs, lvars, nvars>>

\* line 463 with received != pdTRUE: the timeout ran out with the semaphore
\* still empty.
WaitTimeout ==
    /\ tpc = "w_take"
    /\ transfer_done = 0
    /\ tpc' = "w_halt"
    /\ obs' = IF call.wn = 1 THEN [obs EXCEPT !.timedOut = TRUE] ELSE obs
    /\ UNCHANGED <<xfer, transfer_done, inflight, config, call, lvars, nvars>>

\* lines 466-467: usb_host_endpoint_halt, usb_host_endpoint_flush.  The flush
\* makes the transport retire the transfer in flight, if there is one.
WaitRecover ==
    /\ tpc = "w_halt"
    /\ tpc' = "w_forever"
    /\ inflight' = IF inflight = "pending" THEN "flushed" ELSE inflight
    /\ obs' = [obs EXCEPT !.halts = @ + 1, !.flushes = @ + 1]
    /\ UNCHANGED <<xfer, transfer_done, config, call, lvars, nvars>>

\* lines 468-469: xSemaphoreTake(portMAX_DELAY); return TIMED_OUT
WaitForever ==
    /\ tpc = "w_forever"
    /\ transfer_done = 1
    /\ transfer_done' = 0
    /\ AfterWait("TIMED_OUT")
    /\ UNCHANGED <<inflight, config, obs, lvars, nvars>>

\* transfer_callback, lines 448-457: xSemaphoreGive(device->transfer_done)
transfer_callback(sem) == 1

\* The transport ends the transfer in flight with status st, stores the status
\* in the transfer object and calls its callback.
TransportComplete(st) ==
    /\ inflight = "pending"
    /\ inflight' = "none"
    /\ xfer' = [xfer EXCEPT !.status = st]
    /\ transfer_done' = transfer_callback(transfer_done)
    /\ obs' = [obs EXCEPT !.actual = st]
    /\ UNCHANGED <<config, tpc, call, lvars, nvars>>

\* The transport retires a flushed transfer: exactly one callback, status
\* CANCELED.
TransportRetire ==
    /\ inflight = "flushed"
    /\ inflight' = "none"
    /\ xfer' = [xfer EXCEPT !.status = "CANCELED"]
    /\ transfer_done' = transfer_callback(transfer_done)
    /\ obs' = [obs EXCEPT !.actual = "CANCELED"]
    /\ UNCHANGED <<config, tpc, call, lvars, nvars>>

NextXfer ==
    \/ \E size \in Sizes, ep \in {"MSC_EP_IN", "MSC_EP_OUT"} : BulkCall(size, ep)
    \/ \E size \in Sizes, ep \in {"MSC_EP_IN", "MSC_EP_OUT"}, dma \in BOOLEAN :
          ZeroCpyCall(size, ep, dma)
    \/ \E len \in {8} : ControlCall(len)
    \/ WaitRead
    \/ WaitTake
    \/ WaitTimeout
    \/ WaitRecover
    \/ WaitForever
    \/ \E st \in NaturalStatuses : TransportComplete(st)
    \/ TransportRetire


(***************************************************************************)
(* Device Registry and lifecycle: state                                    *)
(***************************************************************************)

\* calloc(1, sizeof(msc_driver_t)): every field zero
ZeroDriver ==
    [alloc |-> FALSE, client_handle |-> NULL, all_events_handled |-> NULL,
     end_client_event_handling |-> FALSE, devices_tailq |-> <<>>,
     background |-> FALSE]

\* calloc(1, sizeof(msc_device_t)): every field zero
ZeroDevice ==
    [alloc |-> FALSE, transfer_done |-> NULL, handle |-> NULL, xfer |-> NULL,
     configured |-> FALSE]

NoClient == [registered |-> FALSE, unblocked |-> FALSE]

NoTask == [pc |-> "none", client |-> NULL]

NoLoc ==
    [op |-> "none", ret |-> "ESP_OK", driver |-> NULL, device |-> NULL,
     background |-> FALSE, install_failed |-> FALSE, sem |-> NULL,
     failed |-> FALSE, firstErr |-> "ESP_OK", inserted |-> FALSE,
     attempted |-> {}]

\* The lifecycle variables before msc_host_install: no driver, no device.
LifeIdle ==
    /\ s_msc_driver = NULL
    /\ drv = [d \in DrvSlots |-> ZeroDriver]
    /\ allsem = [d \in DrvSlots |-> -1]
    /\ clients = [d \in DrvSlots |-> NoClient]
    /\ dev = [k \in DevSlots |-> ZeroDevice]
    /\ usb = [open |-> {}, claimed |-> {}, xfers |-> {}]
    /\ tasks = [t \in TaskSlots |-> NoTask]
    /\ pc = [c \in Callers |-> "idle"]
    /\ loc = [c \in Callers |-> NoLoc]
    /\ handles = {}
    /\ published = {}
    /\ fault = "none"

\* No client event is being handled and the user callback has not been invoked.
NoDisp == [pc |-> "idle", event |-> "none", hdl |-> NULL, msc_device |-> NULL]

NoEvent == [event |-> "none", handle |-> NULL, address |-> 0]

DispIdle == disp = NoDisp /\ cbk = NoEvent

\* msc_wait_for_ready_state is not running.
NoReady ==
    [pc |-> "idle", timeout_ms |-> 0, trials |-> 0, err |-> "ESP_OK",
     sense_key |-> 0, ret |-> "ESP_OK", unit_ready |-> 0, delays |-> 0,
     transient |-> TRUE]

ReadyIdle == ready = NoReady

\* msc_config_t as calloc leaves it inside msc_device_t (line 358)
ZeroConfig == [iface_num |-> 0, bulk_in_ep |-> 0, bulk_in_mps |-> 0, bulk_out_ep |-> 0]

\* The Descriptor Parser has not been applied.
NoParse ==
    [op |-> "none", desc |-> <<>>, wTotalLength |-> 0, offset |-> 0,
     found |-> FALSE, ret |-> "ESP_OK", cfg |-> ZeroConfig]

ParseIdle == parse = NoParse

OtherIdle == DispIdle /\ ReadyIdle /\ ParseIdle

Init == XferIdle /\ LifeIdle /\ OtherIdle

\* The Transfer Engine on an installed device; the lifecycle does not move.
InitXfer == XferInit /\ LifeIdle /\ OtherIdle

SpecXfer == InitXfer /\ [][NextXfer]_vars

\* The value of a local pointer to a block that another context has freed.
Dangling == -1

Min(S) == CHOOSE x \in S : \A y \in S : x <= y

\* What calloc can return for a driver: NULL, or the first free block.
CallocDriver ==
    LET free == {d \in DrvSlots : ~drv[d].alloc}
    IN {NULL} \cup (IF free = {} THEN {} ELSE {Min(free)})

\* What calloc can return for a device: NULL, or the first free block.
CallocDevice ==
    LET free == {k \in DevSlots : ~dev[k].alloc}
    IN {NULL} \cup (IF free = {} THEN {} ELSE {Min(free)})

\* A dereference of s_msc_driver is defined when the pointer is not NULL and the
\* block it points to has not been freed.
DriverValid == s_msc_driver # NULL /\ drv[s_msc_driver].alloc

\* The fault a dereference of s_msc_driver ends in when it is not defined.
DerefFault == IF s_msc_driver = NULL THEN "null_deref" ELSE "use_after_free"

Running(c, p) == fault = "none" /\ pc[c] = p

\* The program stops with fault f (a panic: nothing of the driver runs on).
\* The stopped program is one state per fault, whatever state it stopped in.
Stop(f) ==
    /\ fault' = f
    /\ s_msc_driver' = NULL
    /\ drv' = [d \in DrvSlots |-> ZeroDriver]
    /\ allsem' = [d \in DrvSlots |-> -1]
    /\ clients' = [d \in DrvSlots |-> NoClient]
    /\ dev' = [k \in DevSlots |-> ZeroDevice]
    /\ usb' = [open |-> {}, claimed |-> {}, xfers |-> {}]
    /\ tasks' = [t \in TaskSlots |-> NoTask]
    /\ pc' = [c \in Callers |-> "stopped"]
    /\ loc' = [c \in Callers |-> NoLoc]
    /\ handles' = {}
    /\ published' = {}

\* Caller c returns r from the call whose locals are l: the caller holds the
\* result ("done") until it goes on (Resume).
Return(c, l, r) ==
    /\ pc' = [pc EXCEPT ![c] = "done"]
    /\ loc' = [loc EXCEPT ![c] = [NoLoc EXCEPT !.op = l.op, !.ret = r,
                                              !.failed = l.failed,
                                              !.inserted = l.inserted,
                                              !.attempted = l.attempted]]

\* The caller has looked at the result and is free to make its next call.
Resume(c) ==
    /\ Running(c, "done")
    /\ pc' = [pc EXCEPT ![c] = "idle"]
    /\ loc' = [loc EXCEPT ![c] = NoLoc]
    /\ UNCHANGED <<xvars, nvars, s_msc_driver, drv, allsem, clients, dev, usb,
                   tasks, handles, published, fault>>

(***************************************************************************)
(* msc_host_install                                                        *)
(***************************************************************************)

\* lines 276-297: argument checks, the unlocked pre-check of s_msc_driver, the
\* allocation of the driver state and of its semaphore.
Install_Begin(c, valid, background) ==
    /\ Running(c, "idle")
    /\ LET l0 == [NoLoc EXCEPT !.op = "install", !.background = background]
       IN IF ~valid
          THEN /\ Return(c, l0, "ESP_ERR_INVALID_ARG")
               /\ UNCHANGED <<drv, allsem>>
          ELSE IF s_msc_driver # NULL
          THEN /\ Return(c, l0, "ESP_ERR_INVALID_STATE")
               /\ UNCHANGED <<drv, allsem>>
          ELSE \E d \in CallocDriver :
                 IF d = NULL
                 THEN /\ Return(c, l0, "ESP_ERR_NO_MEM")
                      /\ UNCHANGED <<drv, allsem>>
                 ELSE \E created \in BOOLEAN :
                        IF created
                        THEN /\ drv' = [drv EXCEPT ![d] =
                                          [ZeroDriver EXCEPT !.alloc = TRUE,
                                                             !.all_events_handled = d,
                                                             !.background = background]]
                             /\ allsem' = [allsem EXCEPT ![d] = 0]
                             /\ loc' = [loc EXCEPT ![c] = [l0 EXCEPT !.driver = d]]
                             /\ pc' = [pc EXCEPT ![c] = "i_register"]
                        ELSE /\ drv' = [drv EXCEPT ![d] =
                                          [ZeroDriver EXCEPT !.alloc = TRUE,
                                                             !.background = background]]
                             /\ loc' = [loc EXCEPT ![c] =
                                          [l0 EXCEPT !.driver = d,
                                                     !.ret = "ESP_ERR_NO_MEM",
                                                     !.firstErr = "ESP_ERR_NO_MEM",
                                                     !.failed = TRUE]]
                             /\ pc' = [pc EXCEPT ![c] = "i_fail"]
                             /\ UNCHANGED allsem
    /\ UNCHANGED <<xvars, nvars, s_msc_driver, clients, dev, usb, tasks, handles, published, fault>>

\* What usb_host_client_register can give: no client, or the first free one.
RegisterClient ==
    LET free == {h \in DrvSlots : ~clients[h].registered}
    IN {NULL} \cup (IF free = {} THEN {} ELSE {Min(free)})

\* line 299: usb_host_client_register(&client_config, &driver->client_handle)
Install_Register(c) ==
    /\ Running(c, "i_register")
    /\ LET d == loc[c].driver
       IN \E h \in RegisterClient :
            IF h # NULL
            THEN /\ clients' = [clients EXCEPT ![h] = [registered |-> TRUE,
                                                       unblocked |-> FALSE]]
                 /\ drv' = [drv EXCEPT ![d].client_handle = h]
                 /\ pc' = [pc EXCEPT ![c] = "i_publish"]
                 /\ UNCHANGED loc
            ELSE /\ loc' = [loc EXCEPT ![c].ret = "ESP_ERR_NO_MEM",
                                       ![c].firstErr = "ESP_ERR_NO_MEM",
                                       ![c].failed = TRUE]
                 /\ pc' = [pc EXCEPT ![c] = "i_fail"]
                 /\ UNCHANGED <<clients, drv>>
    /\ UNCHANGED <<xvars, nvars, s_msc_driver, allsem, dev, usb, tasks, handles, published,
                   fault>>

\* lines 301-305: MSC_ENTER_CRITICAL, the locked check, s_msc_driver = driver, STAILQ_INIT,
\* MSC_EXIT_CRITICAL
Install_Publish(c) ==
    /\ Running(c, "i_publish")
    /\ LET d == loc[c].driver
       IN IF s_msc_driver # NULL
          THEN /\ loc' = [loc EXCEPT ![c].ret = "ESP_ERR_INVALID_STATE",
                                     ![c].firstErr = "ESP_ERR_INVALID_STATE",
                                     ![c].failed = TRUE]
               /\ pc' = [pc EXCEPT ![c] = "i_fail"]
               /\ UNCHANGED <<s_msc_driver, drv, published>>
          ELSE /\ s_msc_driver' = d
               /\ drv' = [drv EXCEPT ![d].devices_tailq = <<>>]
               /\ published' = published \cup {d}
               /\ pc' = [pc EXCEPT ![c] = "i_task"]
               /\ UNCHANGED loc
    /\ UNCHANGED <<xvars, nvars, allsem, clients, dev, usb, tasks, handles, fault>>

\* What xTaskCreatePinnedToCore can give: no task, or the first free one.
CreateTask ==
    LET free == {t \in TaskSlots : tasks[t].pc = "none"}
    IN {NULL} \cup (IF free = {} THEN {} ELSE {Min(free)})

\* lines 307-319: the background task, when asked for, and return ESP_OK
Install_Task(c) ==
    /\ Running(c, "i_task")
    /\ IF ~loc[c].background
       THEN /\ Return(c, loc[c], "ESP_OK")
            /\ UNCHANGED tasks
       ELSE \E t \in CreateTask :
              IF t # NULL
              THEN /\ tasks' = [tasks EXCEPT ![t] = [pc |-> "call", client |-> NULL]]
                   /\ Return(c, loc[c], "ESP_OK")
              ELSE /\ loc' = [loc EXCEPT ![c].ret = "ESP_ERR_NO_MEM",
                                         ![c].firstErr = "ESP_ERR_NO_MEM",
                                         ![c].failed = TRUE]
                   /\ pc' = [pc EXCEPT ![c] = "i_fail"]
                   /\ UNCHANGED tasks
    /\ UNCHANGED <<xvars, nvars, s_msc_driver, drv, allsem, clients, dev, usb,
                   handles, published, fault>>

\* line 323: usb_host_client_deregister(driver->client_handle); a NULL handle
\* is refused by the transport and the error is not looked at.
RollbackClient(cl, d) ==
    IF drv[d].client_handle # NULL
    THEN [cl EXCEPT ![drv[d].client_handle] = NoClient]
    ELSE cl

\* A rollback that leaves the semaphore.
RollbackSemaphore_Leak(sm, d) == sm

\* lines 324-326: if (driver->all_events_handled) vSemaphoreDelete(...)
RollbackSemaphore(sm, d) ==
    IF drv[d].all_events_handled # NULL
    THEN [sm EXCEPT ![drv[d].all_events_handled] = -1]
    ELSE sm

\* line 327: free(driver)
RollbackDriver(dr, d) == [dr EXCEPT ![d] = ZeroDriver]

\* lines 321-328, the fail label: s_msc_driver = NULL, deregister, delete the
\* semaphore, free the driver state, return ret
Install_Fail(c) ==
    /\ Running(c, "i_fail")
    /\ LET d == loc[c].driver
       IN IF d = Dangling
          THEN Stop("use_after_free")
          ELSE /\ s_msc_driver' = NULL
               /\ clients' = RollbackClient(clients, d)
               /\ allsem' = RollbackSemaphore(allsem, d)
               /\ drv' = RollbackDriver(drv, d)
               /\ published' = published \ {d}
               /\ Return(c, loc[c], loc[c].ret)
               /\ UNCHANGED <<dev, usb, tasks, handles, fault>>
    /\ UNCHANGED <<xvars, nvars, nvars>>

(***************************************************************************)
(* msc_host_uninstall                                                      *)
(***************************************************************************)

\* lines 337-339: the three conditions under which uninstall is refused
UninstallRefused ==
    \/ s_msc_driver = NULL
    \/ drv[s_msc_driver].end_client_event_handling
    \/ drv[s_msc_driver].devices_tailq # <<>>

\* lines 336-341: MSC_ENTER_CRITICAL, the checks, end_client_event_handling = true,
\* MSC_EXIT_CRITICAL
Uninstall_Check(c) ==
    /\ Running(c, "idle")
    /\ IF s_msc_driver # NULL /\ ~drv[s_msc_driver].alloc
       THEN \* the flag is read from freed memory: the value the uninstall that
            \* freed it left (set: refused), or anything else
            \/ Stop("use_after_free")
            \/ /\ Return(c, [NoLoc EXCEPT !.op = "uninstall"], "ESP_ERR_INVALID_STATE")
               /\ UNCHANGED <<s_msc_driver, drv, allsem, clients, dev, usb, tasks,
                              handles, published, fault>>
       ELSE /\ IF UninstallRefused
               THEN /\ Return(c, [NoLoc EXCEPT !.op = "uninstall"],
                                   "ESP_ERR_INVALID_STATE")
                    /\ UNCHANGED drv
               ELSE /\ drv' = [drv EXCEPT
                                 ![s_msc_driver].end_client_event_handling = TRUE]
                    /\ pc' = [pc EXCEPT ![c] = "u_unblock"]
                    /\ loc' = [loc EXCEPT ![c] = [NoLoc EXCEPT !.op = "uninstall"]]
            /\ UNCHANGED <<s_msc_driver, allsem, clients, dev, usb, tasks, handles, published, fault>>
    /\ UNCHANGED <<xvars, nvars, nvars>>

\* line 343: ESP_ERROR_CHECK(usb_host_client_unblock(s_msc_driver->client_handle)),
\* and line 344 up to the call: the semaphore handle is read from the driver.
Uninstall_Unblock(c) ==
    /\ Running(c, "u_unblock")
    /\ IF ~DriverValid
       THEN Stop(DerefFault)
       ELSE LET h == drv[s_msc_driver].client_handle
            IN IF h = NULL \/ ~clients[h].registered
               THEN Stop("abort")
               ELSE /\ clients' = [clients EXCEPT ![h].unblocked = TRUE]
                    /\ loc' = [loc EXCEPT ![c].sem =
                                            drv[s_msc_driver].all_events_handled]
                    /\ pc' = [pc EXCEPT ![c] = "u_wait"]
                    /\ UNCHANGED <<s_msc_driver, drv, allsem, dev, usb,
                                   tasks, handles, published, fault>>
    /\ UNCHANGED <<xvars, nvars, nvars>>

\* line 344: xSemaphoreTake(all_events_handled, portMAX_DELAY) returns
Uninstall_Wait(c) ==
    /\ Running(c, "u_wait")
    /\ IF loc[c].sem = NULL
       THEN Stop("null_deref")
       ELSE IF allsem[loc[c].sem] = -1
       THEN Stop("use_after_free")
       ELSE /\ allsem[loc[c].sem] = 1
            /\ allsem' = [allsem EXCEPT ![loc[c].sem] = 0]
            /\ pc' = [pc EXCEPT ![c] = "u_release"]
            /\ UNCHANGED <<s_msc_driver, drv, clients, dev, usb, tasks,
                           loc, handles, published, fault>>
    /\ UNCHANGED <<xvars, nvars, nvars>>

\* lines 345-346: vSemaphoreDelete(s_msc_driver->all_events_handled);
\* free(s_msc_driver)
Uninstall_Release(c) ==
    /\ Running(c, "u_release")
    /\ IF ~DriverValid
       THEN Stop(DerefFault)
       ELSE /\ allsem' = RollbackSemaphore(allsem, s_msc_driver)
            /\ drv' = [drv EXCEPT ![s_msc_driver] = ZeroDriver]
            /\ published' = published \ {s_msc_driver}
            /\ pc' = [pc EXCEPT ![c] = "u_clear"]
            /\ loc' = [c2 \in Callers |->
                         IF loc[c2].driver = s_msc_driver
                         THEN [loc[c2] EXCEPT !.driver = Dangling]
                         ELSE loc[c2]]
            /\ UNCHANGED <<s_msc_driver, clients, dev, usb, tasks, handles, fault>>
    /\ UNCHANGED <<xvars, nvars, nvars>>

\* lines 347-348: s_msc_driver = NULL; return ESP_OK
Uninstall_Clear(c) ==
    /\ Running(c, "u_clear")
    /\ s_msc_driver' = NULL
    /\ Return(c, loc[c], "ESP_OK")
    /\ UNCHANGED <<xvars, nvars, drv, allsem, clients, dev, usb, tasks, handles, published, fault>>

(***************************************************************************)
(* msc_deinit_device                                                       *)
(***************************************************************************)

\* STAILQ_REMOVE(head, elm): the queue without elm
Remove(q, k) == SelectSeq(q, LAMBDA e : e # k)

InQueue(q, k) == \E i \in 1..Len(q) : q[i] = k

\* A failure path that returns what the teardown returned.
DeinitResult_Teardown(l, r) == r

\* What msc_host_install_device (line 388) and msc_host_uninstall_device
\* (line 394) return when msc_deinit_device returned r.
DeinitResult(l, r) == IF l.install_failed THEN l.ret ELSE r

\* lines 156-159: MSC_ENTER_CRITICAL, the NULL check, STAILQ_REMOVE from s_msc_driver's queue,
\* MSC_EXIT_CRITICAL.  STAILQ_REMOVE dereferences s_msc_driver, and walks off
\* the end of a queue that does not hold the device.
Deinit_Remove(c) ==
    /\ Running(c, "dd_remove")
    /\ LET k == loc[c].device
       IN IF k = NULL
          THEN /\ Return(c, loc[c], DeinitResult(loc[c], "ESP_ERR_INVALID_STATE"))
               /\ UNCHANGED <<s_msc_driver, drv, allsem, clients, dev, usb, tasks,
                              handles, published, fault>>
          ELSE IF ~DriverValid
          THEN Stop(DerefFault)
          ELSE IF ~InQueue(drv[s_msc_driver].devices_tailq, k)
          THEN Stop("null_deref")
          ELSE /\ drv' = [drv EXCEPT ![s_msc_driver].devices_tailq = Remove(@, k)]
               /\ pc' = [pc EXCEPT ![c] = "dd_teardown"]
               /\ UNCHANGED <<s_msc_driver, allsem, clients, dev, usb, tasks, loc, handles, published, fault>>
    /\ UNCHANGED <<xvars, nvars, nvars>>

\* Results of the three transport calls of the teardown: the release of an
\* interface that is not claimed and the close of a handle that is not open
\* fail; the others succeed or fail (the device may be gone).
ReleaseResults(k) ==
    IF k \in usb.claimed THEN {"ESP_OK", "ESP_ERR_INVALID_STATE"}
    ELSE {"ESP_ERR_INVALID_ARG"}

CloseResults(k) ==
    IF k \in usb.open THEN {"ESP_OK", "ESP_ERR_INVALID_STATE"}
    ELSE {"ESP_ERR_INVALID_ARG"}

\* The teardown calls msc_deinit_device makes, in order, when the three calls
\* return r1, r2, r3: lines 164-173.  On the failure path every call is made;
\* on the explicit path MSC_RETURN_ON_ERROR returns at the first error.
TeardownCalls(install_failed, r1, r2, r3) ==
    IF install_failed THEN {"release", "close", "free"}
    ELSE IF r1 # "ESP_OK" THEN {"release"}
    ELSE IF r2 # "ESP_OK" THEN {"release", "close"}
    ELSE {"release", "close", "free"}

\* The value msc_deinit_device returns: lines 164-176
TeardownResult(install_failed, r1, r2, r3) ==
    IF install_failed THEN "ESP_OK"
    ELSE IF r1 # "ESP_OK" THEN r1
    ELSE IF r2 # "ESP_OK" THEN r2
    ELSE r3

\* line 175: free(dev) is reached
TeardownFrees(install_failed, r1, r2, r3) ==
    install_failed \/ (r1 = "ESP_OK" /\ r2 = "ESP_OK" /\ r3 = "ESP_OK")

\* lines 161-176: delete the semaphore, release the interface, close the
\* device, free the transfer, free the device memory.
Deinit_Teardown(c) ==
    /\ Running(c, "dd_teardown")
    /\ IF ~DriverValid
       THEN Stop(DerefFault)
       ELSE LET k == loc[c].device
                f == loc[c].install_failed
            IN \E r1 \in ReleaseResults(k), r2 \in CloseResults(k), r3 \in {"ESP_OK"} :
                 LET calls == TeardownCalls(f, r1, r2, r3)
                     freed == TeardownFrees(f, r1, r2, r3)
                 IN /\ usb' = [open |-> IF "close" \in calls /\ r2 = "ESP_OK"
                                        THEN usb.open \ {k} ELSE usb.open,
                               claimed |-> IF r1 = "ESP_OK"
                                           THEN usb.claimed \ {k} ELSE usb.claimed,
                               xfers |-> IF "free" \in calls
                                         THEN usb.xfers \ {k} ELSE usb.xfers]
                    /\ dev' = [dev EXCEPT ![k] =
                                 IF freed THEN ZeroDevice
                                 ELSE [@ EXCEPT !.transfer_done = NULL]]
                    /\ Return(c, [loc[c] EXCEPT !.attempted = calls],
                              DeinitResult(loc[c], TeardownResult(f, r1, r2, r3)))
                    /\ UNCHANGED <<s_msc_driver, drv, allsem, clients, tasks,
                                   handles, published, fault>>
    /\ UNCHANGED <<xvars, nvars, nvars>>

(***************************************************************************)
(* msc_host_install_device and msc_host_uninstall_device                   *)
(***************************************************************************)

\* line 358: msc_device = calloc(1, sizeof(msc_device_t)); on NULL, goto fail
InstallDev_Begin(c) ==
    /\ Running(c, "idle")
    /\ LET l0 == [NoLoc EXCEPT !.op = "install_device"]
       IN \E k \in CallocDevice :
            IF k = NULL
            THEN /\ loc' = [loc EXCEPT ![c] =
                              [l0 EXCEPT !.ret = "ESP_ERR_NO_MEM",
                                         !.firstErr = "ESP_ERR_NO_MEM",
                                         !.failed = TRUE,
                                         !.install_failed = TRUE]]
                 /\ pc' = [pc EXCEPT ![c] = "dd_remove"]
                 /\ UNCHANGED dev
            ELSE /\ dev' = [dev EXCEPT ![k] = [ZeroDevice EXCEPT !.alloc = TRUE]]
                 /\ loc' = [loc EXCEPT ![c] = [l0 EXCEPT !.device = k]]
                 /\ pc' = [pc EXCEPT ![c] = "d_insert"]
    /\ UNCHANGED <<xvars, nvars, s_msc_driver, drv, allsem, clients, usb, tasks,
                   handles, published, fault>>

\* lines 361-362: the conditions under which the device is not inserted
InsertRefused == s_msc_driver = NULL \/ drv[s_msc_driver].client_handle = NULL

\* lines 360-364: MSC_ENTER_CRITICAL, the checks, STAILQ_INSERT_TAIL, MSC_EXIT_CRITICAL
InstallDev_Insert(c) ==
    /\ Running(c, "d_insert")
    /\ IF s_msc_driver # NULL /\ ~drv[s_msc_driver].alloc
       THEN Stop("use_after_free")
       ELSE /\ IF InsertRefused
               THEN /\ loc' = [loc EXCEPT ![c].ret = "ESP_ERR_INVALID_STATE",
                                          ![c].firstErr = "ESP_ERR_INVALID_STATE",
                                          ![c].failed = TRUE,
                                          ![c].install_failed = TRUE]
                    /\ pc' = [pc EXCEPT ![c] = "dd_remove"]
                    /\ UNCHANGED drv
               ELSE /\ drv' = [drv EXCEPT ![s_msc_driver].devices_tailq =
                                            Append(@, loc[c].device)]
                    /\ loc' = [loc EXCEPT ![c].inserted = TRUE]
                    /\ pc' = [pc EXCEPT ![c] = "d_setup"]
            /\ UNCHANGED <<s_msc_driver, allsem, clients, dev, usb, tasks, handles, published, fault>>
    /\ UNCHANGED <<xvars, nvars, nvars>>

\* The fallible steps of lines 366-378, in order.
SetupSteps ==
    <<"semaphore", "open", "descriptor", "extract", "transfer_alloc", "claim",
      "inquiry", "ready", "capacity">>

\* The results each step can have.  extract_config_from_descriptor asserts
\* that the descriptor holds a mass-storage interface (line 123).
StepResults(name) ==
    CASE name = "semaphore"      -> {"ESP_OK", "ESP_ERR_NO_MEM"}
      [] name = "open"           -> {"ESP_OK", "ESP_ERR_NOT_FOUND"}
      [] name = "descriptor"     -> {"ESP_OK", "ESP_ERR_NOT_FOUND"}
      [] name = "extract"        -> {"ESP_OK", "ESP_ERR_NOT_SUPPORTED", "assert"}
      [] name = "transfer_alloc" -> {"ESP_OK", "ESP_ERR_NO_MEM"}
      [] name = "claim"          -> {"ESP_OK", "ESP_ERR_NOT_FOUND"}
      [] OTHER                   -> {"ESP_OK", "ESP_ERR_MSC_INTERNAL"}

\* The steps that pass s_msc_driver->client_handle: lines 367 and 372
StepReadsDriver(name) == name \in {"open", "claim"}

\* What the steps before step n, all succeeded, leave in the device and in
\* the transport.
SetupDevice(d, k, n) ==
    [d EXCEPT !.transfer_done = IF n > 1 THEN k ELSE @,
              !.handle = IF n > 2 THEN k ELSE @,
              !.configured = IF n > 4 THEN TRUE ELSE @,
              !.xfer = IF n > 5 THEN k ELSE @]

SetupUsb(u, k, n) ==
    [open |-> IF n > 2 THEN u.open \cup {k} ELSE u.open,
     xfers |-> IF n > 5 THEN u.xfers \cup {k} ELSE u.xfers,
     claimed |-> IF n > 6 THEN u.claimed \cup {k} ELSE u.claimed]

\* lines 366-384: the setup runs up to its first failing step n (none when
\* n = Len(SetupSteps) + 1); complete, it returns ESP_OK and hands the device
\* handle to the application; failed, it goes to fail (line 386).
InstallDev_Setup(c) ==
    /\ Running(c, "d_setup")
    /\ LET k == loc[c].device
       IN \E n \in 1..(Len(SetupSteps) + 1) :
            IF (\E i \in 1..Len(SetupSteps) :
                  i <= n /\ StepReadsDriver(SetupSteps[i])) /\ ~DriverValid
            THEN Stop(DerefFault)
            ELSE IF n = Len(SetupSteps) + 1
            THEN /\ dev' = [dev EXCEPT ![k] = SetupDevice(@, k, n)]
                 /\ usb' = SetupUsb(usb, k, n)
                 /\ handles' = handles \cup {k}
                 /\ Return(c, loc[c], "ESP_OK")
                 /\ UNCHANGED <<s_msc_driver, drv, allsem, clients, tasks, published, fault>>
            ELSE \E r \in StepResults(SetupSteps[n]) \ {"ESP_OK"} :
                   IF r = "assert"
                   THEN Stop("assert")
                   ELSE /\ dev' = [dev EXCEPT ![k] = SetupDevice(@, k, n)]
                        /\ usb' = SetupUsb(usb, k, n)
                        /\ loc' = [loc EXCEPT ![c].ret = r, ![c].firstErr = r,
                                              ![c].failed = TRUE,
                                              ![c].install_failed = TRUE]
                        /\ pc' = [pc EXCEPT ![c] = "dd_remove"]
                        /\ UNCHANGED <<s_msc_driver, drv, allsem, clients, tasks,
                                       handles, published, fault>>
    /\ UNCHANGED <<xvars, nvars, nvars>>

\* msc_host_uninstall_device, lines 393-394: a NULL handle is refused, any
\* other goes to msc_deinit_device(device, false).
UninstallDev_Begin(c, h) ==
    /\ Running(c, "idle")
    /\ LET l0 == [NoLoc EXCEPT !.op = "uninstall_device"]
       IN IF h = NULL
          THEN /\ Return(c, l0, "ESP_ERR_INVALID_ARG")
               /\ UNCHANGED handles
          ELSE /\ handles' = handles \ {h}
               /\ loc' = [loc EXCEPT ![c] = [l0 EXCEPT !.device = h]]
               /\ pc' = [pc EXCEPT ![c] = "dd_remove"]
    /\ UNCHANGED <<xvars, nvars, s_msc_driver, drv, allsem, clients, dev, usb,
                   tasks, published, fault>>

(***************************************************************************)
(* event_handler_task and msc_host_handle_events                           *)
(***************************************************************************)

\* line 226 up to the call: the client handle is read from the driver state
\* and usb_host_client_handle_events(handle, portMAX_DELAY) is entered.
Task_Call(t) ==
    /\ fault = "none"
    /\ tasks[t].pc = "call"
    /\ IF ~DriverValid
       THEN Stop(DerefFault)
       ELSE /\ tasks' = [tasks EXCEPT ![t] =
                           [pc |-> "blocked",
                            client |-> drv[s_msc_driver].client_handle]]
            /\ UNCHANGED <<s_msc_driver, drv, allsem, clients, dev, usb,
                           pc, loc, handles, published, fault>>
    /\ UNCHANGED <<xvars, nvars, nvars>>

\* line 226: usb_host_client_handle_events returns, because the client was
\* unblocked or because the handle is that of no registered client.
Task_Wake(t) ==
    /\ fault = "none"
    /\ tasks[t].pc = "blocked"
    /\ LET h == tasks[t].client
       IN IF h = NULL \/ ~clients[h].registered
          THEN UNCHANGED clients
          ELSE /\ clients[h].unblocked
               /\ clients' = [clients EXCEPT ![h].unblocked = FALSE]
    /\ tasks' = [tasks EXCEPT ![t].pc = "check"]
    /\ UNCHANGED <<xvars, nvars, s_msc_driver, drv, allsem, dev, usb, pc,
                   loc, handles, published, fault>>

\* lines 228-230: if (s_msc_driver->end_client_event_handling) break
Task_Check(t) ==
    /\ fault = "none"
    /\ tasks[t].pc = "check"
    /\ IF ~DriverValid
       THEN Stop(DerefFault)
       ELSE /\ tasks' = [tasks EXCEPT ![t].pc =
                           IF drv[s_msc_driver].end_client_event_handling
                           THEN "exit" ELSE "call"]
            /\ UNCHANGED <<s_msc_driver, drv, allsem, clients, dev, usb,
                           pc, loc, handles, published, fault>>
    /\ UNCHANGED <<xvars, nvars, nvars>>

\* lines 232-234: ESP_ERROR_CHECK(usb_host_client_deregister(...)),
\* xSemaphoreGive(s_msc_driver->all_events_handled), vTaskDelete(NULL)
Task_Exit(t) ==
    /\ fault = "none"
    /\ tasks[t].pc = "exit"
    /\ IF ~DriverValid
       THEN Stop(DerefFault)
       ELSE LET h == drv[s_msc_driver].client_handle
                sm == drv[s_msc_driver].all_events_handled
            IN IF h = NULL \/ ~clients[h].registered
               THEN Stop("abort")
               ELSE /\ clients' = [clients EXCEPT ![h] = NoClient]
                    /\ allsem' = IF sm # NULL /\ allsem[sm] >= 0
                                 THEN [allsem EXCEPT ![sm] = 1] ELSE allsem
                    /\ tasks' = [tasks EXCEPT ![t] = NoTask]
                    /\ UNCHANGED <<s_msc_driver, drv, dev, usb, pc,
                                   loc, handles, published, fault>>
    /\ UNCHANGED <<xvars, nvars, nvars>>

\* msc_host_handle_events, lines 399-401, called by the application that asked
\* for no background task: with no driver the call returns
\* ESP_ERR_INVALID_STATE and changes nothing; otherwise
\* usb_host_client_handle_events(s_msc_driver->client_handle, timeout) handles
\* the pending events of the client, an unblock included, and returns.
msc_host_handle_events ==
    /\ fault = "none"
    /\ IF s_msc_driver = NULL
       THEN UNCHANGED lvars
       ELSE IF ~drv[s_msc_driver].alloc
       THEN Stop("use_after_free")
       ELSE /\ ~drv[s_msc_driver].background
            /\ LET h == drv[s_msc_driver].client_handle
               IN clients' = IF h # NULL /\ clients[h].registered
                             THEN [clients EXCEPT ![h].unblocked = FALSE]
                             ELSE clients
            /\ UNCHANGED <<s_msc_driver, drv, allsem, dev, usb, tasks,
                           pc, loc, handles, published, fault>>
    /\ UNCHANGED <<xvars, nvars, nvars>>

(***************************************************************************)
(* client_event_cb: the client events handled by the Event Dispatcher      *)
(***************************************************************************)

\* The transport handles a device-gone event can carry: the handle of a device
\* slot, or the handle of a device this driver never opened.
EventHandles == DevSlots \cup {NumDev + 1}

\* usb_host_client_handle_events is running for the driver's client: in an
\* event_handler_task (line 226), or called by the application through
\* msc_host_handle_events (line 401).  client_event_cb runs inside it.
Dispatching ==
    \/ \E t \in TaskSlots :
          /\ tasks[t].pc = "blocked"
          /\ tasks[t].client # NULL
          /\ clients[tasks[t].client].registered
    \/ /\ DriverValid
       /\ ~drv[s_msc_driver].background
       /\ drv[s_msc_driver].client_handle # NULL
       /\ clients[drv[s_msc_driver].client_handle].registered

\* A lookup that takes the first device of the registry, whatever its handle.
find_msc_device_First(q, dv, device_handle) ==
    IF q = <<>> THEN NULL ELSE q[1]

\* find_msc_device, lines 241-247: the first device of the queue whose
\* transport handle is device_handle, NULL when there is none.
find_msc_device(q, dv, device_handle) ==
    LET hits == {i \in 1..Len(q) : dv[q[i]].handle = device_handle}
    IN IF hits = {} THEN NULL ELSE q[Min(hits)]

\* A disconnected event that carries no device handle.
DisconnectedEvent_NoHandle(msc_device) ==
    [event |-> "MSC_DEVICE_DISCONNECTED", handle |-> NULL, address |-> 0]

\* lines 263-266: the event given to the user callback on device-gone
DisconnectedEvent(msc_device) ==
    [event |-> "MSC_DEVICE_DISCONNECTED", handle |-> msc_device, address |-> 0]

\* lines 254-257: the event given to the user callback on new-device
ConnectedEvent(address) ==
    [event |-> "MSC_DEVICE_CONNECTED", handle |-> NULL, address |-> address]

\* client_event_cb, lines 260-261: a USB_HOST_CLIENT_EVENT_DEV_GONE event
\* with handle h arrives and find_msc_device walks s_msc_driver->devices_tailq
\* (msc_lock is not taken).
EventGone_Find(h) ==
    /\ fault = "none"
    /\ disp.pc = "idle"
    /\ Dispatching
    /\ IF ~DriverValid
       THEN Stop(DerefFault) /\ UNCHANGED dvars
       ELSE /\ disp' = [pc |-> "found", event |-> "DEV_GONE", hdl |-> h,
                        msc_device |->
                          find_msc_device(drv[s_msc_driver].devices_tailq, dev, h)]
            /\ cbk' = NoEvent
            /\ UNCHANGED lvars
    /\ UNCHANGED <<xvars, avars>>

\* client_event_cb, lines 262-268: if a device was found, the user callback
\* is invoked with the disconnected event; the handler returns.
EventGone_Callback ==
    /\ fault = "none"
    /\ disp.pc = "found"
    /\ IF disp.msc_device = NULL
       THEN /\ disp' = [disp EXCEPT !.pc = "idle"]
            /\ UNCHANGED <<cbk, lvars>>
       ELSE IF ~DriverValid
       THEN Stop(DerefFault) /\ UNCHANGED dvars
       ELSE /\ cbk' = DisconnectedEvent(disp.msc_device)
            /\ disp' = [disp EXCEPT !.pc = "idle"]
            /\ UNCHANGED lvars
    /\ UNCHANGED <<xvars, avars>>

\* client_event_cb, lines 252-259, with is_mass_storage_device (lines 202-221):
\* a USB_HOST_CLIENT_EVENT_NEW_DEV event for the device at address; the device
\* is opened, its active configuration descriptor classified, the device
\* closed; is_msc is the outcome (false also when the open or the descriptor
\* request fails).  A mass-storage device is announced to the user callback.
EventNew(address, is_msc) ==
    /\ fault = "none"
    /\ disp.pc = "idle"
    /\ Dispatching
    /\ IF ~DriverValid
       THEN Stop(DerefFault) /\ UNCHANGED dvars
       ELSE /\ disp' = [pc |-> "idle", event |-> "NEW_DEV", hdl |-> NULL,
                        msc_device |-> NULL]
            /\ cbk' = IF is_msc THEN ConnectedEvent(address) ELSE NoEvent
            /\ UNCHANGED lvars
    /\ UNCHANGED <<xvars, avars>>

\* The driver installed with its background task blocked in
\* usb_host_client_handle_events, no device installed yet.
DispatchInit ==
    /\ XferIdle
    /\ DispIdle
    /\ ReadyIdle
    /\ ParseIdle
    /\ s_msc_driver = 1
    /\ drv = [d \in DrvSlots |->
                IF d = 1
                THEN [ZeroDriver EXCEPT !.alloc = TRUE, !.client_handle = 1,
                                        !.all_events_handled = 1,
                                        !.background = TRUE]
                ELSE ZeroDriver]
    /\ allsem = [d \in DrvSlots |-> IF d = 1 THEN 0 ELSE -1]
    /\ clients = [d \in DrvSlots |->
                    IF d = 1 THEN [registered |-> TRUE, unblocked |-> FALSE]
                    ELSE NoClient]
    /\ dev = [k \in DevSlots |-> ZeroDevice]
    /\ usb = [open |-> {}, claimed |-> {}, xfers |-> {}]
    /\ tasks = [t \in TaskSlots |->
                  IF t = 1 THEN [pc |-> "blocked", client |-> 1] ELSE NoTask]
    /\ pc = [c \in Callers |-> "idle"]
    /\ loc = [c \in Callers |-> NoLoc]
    /\ handles = {}
    /\ published = {1}
    /\ fault = "none"

\* The Event Dispatcher and the device operations on an installed driver.
NextDispatch ==
    \/ \E c \in Callers :
          \/ Resume(c)
          \/ InstallDev_Begin(c)
          \/ InstallDev_Insert(c)
          \/ InstallDev_Setup(c)
          \/ \E h \in handles \cup {NULL} : UninstallDev_Begin(c, h)
          \/ Deinit_Remove(c)
          \/ Deinit_Teardown(c)
    \/ \E h \in EventHandles : EventGone_Find(h)
    \/ EventGone_Callback
    \/ \E is_msc \in BOOLEAN : EventNew(1, is_msc)

SpecDispatch == DispatchInit /\ [][NextDispatch]_vars

(***************************************************************************)
(* msc_wait_for_ready_state: the Readiness Protocol                        *)
(***************************************************************************)

MSC_NO_SENSE == 0

MSC_NOT_READY == 2

MSC_UNIT_ATTENTION == 6

MaxTimeoutMs == 500

\* The timeouts the call is made with.
Timeouts == {t \in 0..MaxTimeoutMs : t % 50 = 0}

\* The sense keys REQUEST SENSE reports: the three transient ones, medium
\* error and illegal request.
SenseKeys == {MSC_NO_SENSE, MSC_NOT_READY, MSC_UNIT_ATTENTION, 3, 5}

Max(a, b) == IF a >= b THEN a ELSE b

\* line 184: uint32_t trials = MAX(1, timeout_ms / 100)
Trials(timeout_ms) == Max(1, timeout_ms \div 100)

\* line 190-192: the sense keys after which the loop goes on
Transient(key) == key \in {MSC_NOT_READY, MSC_UNIT_ATTENTION, MSC_NO_SENSE}

\* lines 182-184: the call is entered and the budget computed
Ready_Call(timeout_ms) ==
    /\ ready.pc = "idle"
    /\ ready' = [NoReady EXCEPT !.pc = "loop", !.timeout_ms = timeout_ms,
                                !.trials = Trials(timeout_ms)]
    /\ UNCHANGED <<xvars, lvars, dvars, parse>>

\* lines 186-199: one iteration of the do-while loop.  scsi_cmd_unit_ready
\* returns ur; when it failed, scsi_cmd_sense returns sr and reports key.
\* The condition trials-- && err reads trials, then decrements it; at 0 the
\* uint32_t wraps to UINT32_MAX, written -1 here, and the loop is left.
Ready_Iterate(ur, sr, key) ==
    /\ ready.pc = "loop"
    /\ LET r1 == [ready EXCEPT !.err = ur, !.unit_ready = @ + 1,
                               !.transient = @ /\ ur # "ESP_OK" /\ sr = "ESP_OK"
                                               /\ Transient(key)]
       IN IF ur # "ESP_OK" /\ sr # "ESP_OK"
          THEN ready' = [r1 EXCEPT !.pc = "done", !.ret = sr]
          ELSE IF ur # "ESP_OK" /\ ~Transient(key)
          THEN ready' = [r1 EXCEPT !.pc = "done", !.sense_key = key,
                                   !.ret = "ESP_ERR_MSC_INTERNAL"]
          ELSE LET r2 == [r1 EXCEPT !.sense_key = IF ur # "ESP_OK" THEN key ELSE @,
                                    !.delays = @ + 1,
                                    !.trials = IF @ = 0 THEN -1 ELSE @ - 1]
               IN IF ready.trials # 0 /\ ur # "ESP_OK"
                  THEN ready' = r2
                  ELSE ready' = [r2 EXCEPT !.pc = "done", !.ret = ur]
    /\ UNCHANGED <<xvars, lvars, dvars, parse>>

\* The caller has the result; the next call can be made.
Ready_Return ==
    /\ ready.pc = "done"
    /\ ready' = NoReady
    /\ UNCHANGED <<xvars, lvars, dvars, parse>>

NextReady ==
    \/ \E t \in Timeouts : Ready_Call(t)
    \/ \E ur \in {"ESP_OK", "ESP_ERR_MSC_INTERNAL"},
          sr \in {"ESP_OK", "ESP_ERR_MSC_INTERNAL"},
          key \in SenseKeys : Ready_Iterate(ur, sr, key)
    \/ Ready_Return

SpecReady == Init /\ [][NextReady]_vars

\* C13: for a device on which TEST-UNIT-READY always fails with a transient
\* sense key, msc_wait_for_ready_state(timeout_ms) issues TEST-UNIT-READY
\* exactly max(1, timeout_ms/100) times, one per iteration with one 100 ms
\* delay each, and then returns failure.
C13_RetryBudget ==
    (ready.pc = "done" /\ ready.transient) =>
        /\ ready.unit_ready = Max(1, ready.timeout_ms \div 100)
        /\ ready.delays = ready.unit_ready
        /\ ready.ret # "ESP_OK"

(***************************************************************************)
(* find_msc_interface, extract_config_from_descriptor: Descriptor Parser   *)
(***************************************************************************)

USB_CLASS_MASS_STORAGE == 8

SCSI_COMMAND_SET == 6

BULK_ONLY_TRANSFER == 80

USB_B_DESCRIPTOR_TYPE_CONFIGURATION == 2

USB_B_DESCRIPTOR_TYPE_INTERFACE == 4

USB_B_DESCRIPTOR_TYPE_ENDPOINT == 5

\* The number of descriptors that follow the configuration descriptor.
MaxDescs == 4

\* A descriptor: the standard header and the fields the parser reads.
Desc(len, type, num, class, subclass, protocol, addr, mps) ==
    [bLength |-> len, bDescriptorType |-> type, bInterfaceNumber |-> num,
     bInterfaceClass |-> class, bInterfaceSubClass |-> subclass,
     bInterfaceProtocol |-> protocol, bEndpointAddress |-> addr,
     wMaxPacketSize |-> mps]

ConfigDesc == Desc(9, USB_B_DESCRIPTOR_TYPE_CONFIGURATION, 0, 0, 0, 0, 0, 0)

\* The descriptors a configuration is built of: a bulk-only SCSI mass-storage
\* interface, a mass-storage interface of another protocol, a HID interface,
\* a bulk IN and a bulk OUT endpoint, a class-specific descriptor.
DescKinds ==
    { Desc(9, USB_B_DESCRIPTOR_TYPE_INTERFACE, 2,
           USB_CLASS_MASS_STORAGE, SCSI_COMMAND_SET, BULK_ONLY_TRANSFER, 0, 0),
      Desc(9, USB_B_DESCRIPTOR_TYPE_INTERFACE, 1,
           USB_CLASS_MASS_STORAGE, SCSI_COMMAND_SET, 0, 0, 0),
      Desc(9, USB_B_DESCRIPTOR_TYPE_INTERFACE, 3, 3, 1, 1, 0, 0),
      Desc(7, USB_B_DESCRIPTOR_TYPE_ENDPOINT, 0, 0, 0, 0, 129, 64),
      Desc(7, USB_B_DESCRIPTOR_TYPE_ENDPOINT, 0, 0, 0, 0, 2, 512),
      Desc(5, 36, 0, 0, 0, 0, 0, 0) }

\* The configuration descriptors: the header and up to MaxDescs descriptors.
ConfigDescs ==
    UNION {{<<ConfigDesc>> \o t : t \in [1..n -> DescKinds]} : n \in 0..MaxDescs}

RECURSIVE OffsetOf(_, _)
\* The byte offset of the i-th descriptor of desc.
OffsetOf(desc, i) == IF i = 1 THEN 0 ELSE OffsetOf(desc, i - 1) + desc[i - 1].bLength

\* The values wTotalLength can have: the end of any descriptor of desc.
TotalLengths(desc) == {OffsetOf(desc, i + 1) : i \in 1..Len(desc)}

\* No descriptor: the NULL pointer, the offset left as it was.
NoDesc(offset) == [idx |-> 0, offset |-> offset]

\* usb_parse_next_descriptor: the descriptor after the i-th, NULL when the
\* offset is at the end or the next descriptor starts at or after
\* wTotalLength.
usb_parse_next_descriptor(desc, wTotalLength, i, offset) ==
    IF offset >= wTotalLength THEN NoDesc(offset)
    ELSE IF offset + desc[i].bLength >= wTotalLength
    THEN NoDesc(offset + desc[i].bLength)
    ELSE [idx |-> i + 1, offset |-> offset + desc[i].bLength]

RECURSIVE ScanForType(_, _, _, _)
\* The loop of usb_parse_next_descriptor_of_type from the descriptor r.
ScanForType(desc, wTotalLength, type, r) ==
    IF r.idx = 0 \/ desc[r.idx].bDescriptorType = type THEN r
    ELSE ScanForType(desc, wTotalLength, type,
                     usb_parse_next_descriptor(desc, wTotalLength, r.idx, r.offset))

\* usb_parse_next_descriptor_of_type (lines 72 and 77): the next descriptor of
\* the type after the i-th; *offset is written only when one is found.
usb_parse_next_descriptor_of_type(desc, wTotalLength, type, i, offset) ==
    LET r == ScanForType(desc, wTotalLength, type,
                         usb_parse_next_descriptor(desc, wTotalLength, i, offset))
    IN IF r.idx = 0 THEN NoDesc(offset) ELSE r

\* lines 70-73
next_interface_desc(desc, len, i, offset) ==
    usb_parse_next_descriptor_of_type(desc, len, USB_B_DESCRIPTOR_TYPE_INTERFACE, i, offset)

\* lines 75-78
next_endpoint_desc(desc, len, i, offset) ==
    usb_parse_next_descriptor_of_type(desc, len, USB_B_DESCRIPTOR_TYPE_ENDPOINT, i, offset)

\* lines 96-98
IsMscInterface(d) ==
    /\ d.bInterfaceClass = USB_CLASS_MASS_STORAGE
    /\ d.bInterfaceSubClass = SCSI_COMMAND_SET
    /\ d.bInterfaceProtocol = BULK_ONLY_TRANSFER

RECURSIVE FindLoop(_, _, _)
\* lines 92-104: the while loop of find_msc_interface
FindLoop(desc, total_length, r) ==
    IF r.idx = 0 \/ IsMscInterface(desc[r.idx]) THEN r
    ELSE FindLoop(desc, total_length,
                  next_interface_desc(desc, total_length, r.idx, r.offset))

\* find_msc_interface, lines 85-105, called with *offset = offset
find_msc_interface(desc, wTotalLength, offset) ==
    FindLoop(desc, wTotalLength, next_interface_desc(desc, wTotalLength, 1, offset))

\* An endpoint record stored without looking at its direction.
StoreEndpoint_AsIn(cfg, ep_desc) ==
    [cfg EXCEPT !.bulk_in_ep = ep_desc.bEndpointAddress,
                !.bulk_in_mps = ep_desc.wMaxPacketSize]

\* lines 133-138 and 144-149
StoreEndpoint(cfg, ep_desc) ==
    IF is_in_endpoint(ep_desc.bEndpointAddress)
    THEN [cfg EXCEPT !.bulk_in_ep = ep_desc.bEndpointAddress,
                     !.bulk_in_mps = ep_desc.wMaxPacketSize]
    ELSE [cfg EXCEPT !.bulk_out_ep = ep_desc.bEndpointAddress]

\* What the build can do at line 123 when find_msc_interface returned NULL:
\* the assertion fails, or (assertions disabled) line 127 reads through NULL.
AssertOutcomes == {"assert", "null_deref"}

\* extract_config_from_descriptor, lines 120-151, for a descriptor in which
\* find_msc_interface found the interface r: the outcome and *cfg.
ExtractFrom(desc, total_len, r, cfg) ==
    LET c0 == [cfg EXCEPT !.iface_num = desc[r.idx].bInterfaceNumber]
        e1 == next_endpoint_desc(desc, total_len, r.idx, r.offset)
    IN IF e1.idx = 0
       THEN [ret |-> "ESP_ERR_NOT_SUPPORTED", cfg |-> c0, offset |-> e1.offset]
       ELSE LET c1 == StoreEndpoint(c0, desc[e1.idx])
                e2 == next_endpoint_desc(desc, total_len, e1.idx, e1.offset)
            IN IF e2.idx = 0
               THEN [ret |-> "ESP_ERR_NOT_SUPPORTED", cfg |-> c1, offset |-> e2.offset]
               ELSE [ret |-> "ESP_OK", cfg |-> StoreEndpoint(c1, desc[e2.idx]),
                     offset |-> e2.offset]

\* is_mass_storage_device, lines 204 and 211: find_msc_interface(config_desc,
\* &dummy) on the active configuration descriptor of the new device.
Parse_Classify(desc, wTotalLength) ==
    /\ parse.op = "none"
    /\ LET r == find_msc_interface(desc, wTotalLength, 0)
       IN parse' = [NoParse EXCEPT !.op = "classify", !.desc = desc,
                                   !.wTotalLength = wTotalLength,
                                   !.offset = r.offset, !.found = r.idx # 0]
    /\ UNCHANGED <<xvars, lvars, dvars, ready>>

\* extract_config_from_descriptor(cfg_desc, &msc_device->config), line 369
Parse_Extract(desc, wTotalLength) ==
    /\ parse.op = "none"
    /\ LET r == find_msc_interface(desc, wTotalLength, 0)
           p0 == [NoParse EXCEPT !.op = "extract", !.desc = desc,
                                 !.wTotalLength = wTotalLength,
                                 !.offset = r.offset, !.found = r.idx # 0]
       IN IF r.idx = 0
          THEN \E f \in AssertOutcomes : parse' = [p0 EXCEPT !.ret = f]
          ELSE LET e == ExtractFrom(desc, wTotalLength, r, ZeroConfig)
               IN parse' = [p0 EXCEPT !.ret = e.ret, !.cfg = e.cfg,
                                      !.offset = e.offset]
    /\ UNCHANGED <<xvars, lvars, dvars, ready>>

\* The caller has the outcome; the parser can be applied again.
Parse_Return ==
    /\ parse.op # "none"
    /\ parse' = NoParse
    /\ UNCHANGED <<xvars, lvars, dvars, ready>>

NextParse ==
    \/ \E desc \in ConfigDescs :
         \E wTotalLength \in TotalLengths(desc) :
            \/ Parse_Classify(desc, wTotalLength)
            \/ Parse_Extract(desc, wTotalLength)
    \/ Parse_Return

SpecParse == Init /\ [][NextParse]_vars

(***************************************************************************)
(* Transfer Engine: properties                                             *)
(***************************************************************************)

\* The caller has returned from the call recorded in `call`.
Returned == tpc = "idle" /\ call.op # "none"

\* The caller waits without timeout for a completion that cannot come: the
\* semaphore is empty and the transport holds no transfer of this device.
Hung == tpc = "w_forever" /\ transfer_done = 0 /\ inflight = "none"

\* C1: in a bulk call (plain or zero-copy) whose completion semaphore was not
\* signalled within the timeout after the submission, the endpoint is halted
\* and flushed exactly once, the call does not end up blocked forever, and
\* when it returns it returns ESP_ERR_MSC_INTERNAL.
C1_TimeoutHaltsOnceAndReturns ==
    (call.op \in {"bulk", "zero"} /\ obs.timedOut) =>
        /\ obs.halts <= 1
        /\ obs.flushes <= 1
        /\ ~Hung
        /\ Returned => /\ call.ret = "ESP_ERR_MSC_INTERNAL"
                       /\ obs.halts = 1
                       /\ obs.flushes = 1

\* The result C2 gives for the status a transfer completed with.
StatusToResult(st) ==
    CASE st = "COMPLETED" -> "ESP_OK"
      [] st = "STALL"     -> "ESP_ERR_MSC_STALL"
      [] OTHER            -> "ESP_ERR_MSC_INTERNAL"

\* C2: a bulk call whose submitted transfer completed in time, and before the
\* call read the status of the transfer object, returns the result its
\* completion status maps to (Completed: ESP_OK, Stall: ESP_ERR_MSC_STALL,
\* other: ESP_ERR_MSC_INTERNAL), and it does return.
C2_StatusMapsToResult ==
    (call.op \in {"bulk", "zero"} /\ obs.submitted /\ ~obs.timedOut
        /\ obs.actual # "none" /\ ~obs.readBeforeDone) =>
        /\ ~Hung
        /\ Returned => call.ret = StatusToResult(obs.actual)

\* C8: whenever msc_bulk_transfer_zero_cpy has returned, the transfer
\* object's data_buffer and data_buffer_size are what they were before the
\* call, which is the scratch buffer of DEFAULT_XFER_SIZE bytes.
C8_ZeroCpyRestoresBuffer ==
    (Returned /\ call.op = "zero") =>
        /\ xfer.data_buffer = obs.pre_buffer
        /\ xfer.data_buffer_size = obs.pre_size
        /\ xfer.data_buffer = "scratch"
        /\ xfer.data_buffer_size = DEFAULT_XFER_SIZE

\* C8 witness: a zero-copy call that substituted a buffer of another size,
\* was submitted, completed and returned ESP_OK.
C8_Witness ==
    /\ Returned
    /\ call.op = "zero"
    /\ obs.submitted
    /\ call.ret = "ESP_OK"
    /\ xfer.num_bytes # DEFAULT_XFER_SIZE
    /\ xfer.data_buffer = "scratch"

\* C14: in msc_bulk_transfer a size above the capacity of the transfer buffer
\* is rejected before submission; for an OUT endpoint the submitted num_bytes
\* is size and the first size bytes of the transfer buffer are the caller's
\* data; for an IN endpoint the submitted num_bytes is the least multiple of
\* the bulk-in max packet size that is not below size, and exactly size bytes
\* are copied back to the caller when the call succeeds, none otherwise.
C14_BulkByteCounts ==
    call.op = "bulk" =>
        /\ call.size > obs.pre_size =>
              ~obs.submitted /\ call.ret = "ESP_ERR_INVALID_SIZE" /\ Returned
        /\ (obs.submitted /\ ~is_in_endpoint(call.endpoint)) =>
              xfer.num_bytes = call.size /\ call.to_buffer = call.size
        /\ (obs.submitted /\ is_in_endpoint(call.endpoint)) =>
              /\ xfer.num_bytes % config.bulk_in_mps = 0
              /\ xfer.num_bytes >= call.size
              /\ xfer.num_bytes < call.size + config.bulk_in_mps
              /\ call.to_buffer = 0
        /\ call.to_caller =
              (IF Returned /\ obs.submitted /\ call.ret = "ESP_OK"
                  /\ is_in_endpoint(call.endpoint)
               THEN call.size ELSE 0)

\* An IN transfer of 13 bytes was submitted with a rounded byte count and
\* returned ESP_OK with 13 bytes copied back.
C14_Witness ==
    /\ call.op = "bulk" /\ Returned /\ call.ret = "ESP_OK"
    /\ is_in_endpoint(call.endpoint)
    /\ call.size = 13 /\ xfer.num_bytes > 13 /\ call.to_caller = 13

\* C19: a bulk or control call returns ESP_OK only if the transfer submitted
\* by that very call completed with status Completed, whatever status the
\* previous transfer left in the transfer object.
C19_ClassifiesOwnTransfer ==
    (Returned /\ obs.submitted /\ call.ret = "ESP_OK") => obs.actual = "COMPLETED"

\* C21: for every msc_bulk_transfer call that passes the size check (size not
\* above the capacity of the transfer buffer), the num_bytes handed to the
\* transport does not exceed the data_buffer_size of the transfer object, for
\* both directions and every bulk-in max packet size.
C21_SubmittedFitsBuffer ==
    (call.op = "bulk" /\ call.size <= obs.pre_size) =>
        xfer.num_bytes <= xfer.data_buffer_size

(***************************************************************************)
(* Lifecycle: specification                                                *)
(***************************************************************************)

Next ==
    \/ \E c \in Callers : Resume(c)
    \/ \E c \in Callers, valid \in BOOLEAN, background \in BOOLEAN :
          Install_Begin(c, valid, background)
    \/ \E c \in Callers : Install_Register(c)
    \/ \E c \in Callers : Install_Publish(c)
    \/ \E c \in Callers : Install_Task(c)
    \/ \E c \in Callers : Install_Fail(c)
    \/ \E c \in Callers : Uninstall_Check(c)
    \/ \E c \in Callers : Uninstall_Unblock(c)
    \/ \E c \in Callers : Uninstall_Wait(c)
    \/ \E c \in Callers : Uninstall_Release(c)
    \/ \E c \in Callers : Uninstall_Clear(c)
    \/ \E c \in Callers : InstallDev_Begin(c)
    \/ \E c \in Callers : InstallDev_Insert(c)
    \/ \E c \in Callers : InstallDev_Setup(c)
    \/ \E c \in Callers, h \in handles \cup {NULL} : UninstallDev_Begin(c, h)
    \/ \E c \in Callers : Deinit_Remove(c)
    \/ \E c \in Callers : Deinit_Teardown(c)
    \/ \E t \in TaskSlots : Task_Call(t)
    \/ \E t \in TaskSlots : Task_Wake(t)
    \/ \E t \in TaskSlots : Task_Check(t)
    \/ \E t \in TaskSlots : Task_Exit(t)
    \/ msc_host_handle_events

Spec == Init /\ [][Next]_vars

\* The steps of caller c that continue a call it has made.
CallerStep(c) ==
    \/ Install_Register(c) \/ Install_Publish(c) \/ Install_Task(c) \/ Install_Fail(c)
    \/ Uninstall_Unblock(c) \/ Uninstall_Wait(c) \/ Uninstall_Release(c)
    \/ Uninstall_Clear(c)
    \/ InstallDev_Insert(c) \/ InstallDev_Setup(c)
    \/ Deinit_Remove(c) \/ Deinit_Teardown(c)
    \/ Resume(c)

\* Every call in progress goes on, every event_handler_task is scheduled, and
\* the application that drives the events itself keeps calling
\* msc_host_handle_events.
FairSpec ==
    /\ Spec
    /\ \A c \in Callers : WF_vars(CallerStep(c))
    /\ \A t \in TaskSlots :
         WF_vars(Task_Call(t) \/ Task_Wake(t) \/ Task_Check(t) \/ Task_Exit(t))
    /\ WF_vars(msc_host_handle_events)

(***************************************************************************)
(* Lifecycle: properties                                                   *)
(***************************************************************************)

\* Caller c returns from the call op in this step.
Returns(c, op) == loc[c].op = op /\ pc[c] # "done" /\ pc'[c] = "done"

\* The device k is an entry of no driver's device collection.
Unregistered(dr, k) == \A d \in DrvSlots : ~InQueue(dr[d].devices_tailq, k)

\* C3: an msc_host_uninstall that passed its checks (driver installed, not
\* shutting down, no device) on a driver whose events the application drives
\* through msc_host_handle_events eventually returns (or the program has
\* stopped on a fault).
C3_ManualUninstallReturns ==
    \A c \in Callers :
        (/\ pc[c] = "u_unblock"
         /\ DriverValid
         /\ ~drv[s_msc_driver].background)
            ~> (pc[c] = "done" \/ fault # "none")

\* C4: msc_host_uninstall releases the driver state only while the device
\* collection is empty, and a device is inserted only into the collection of a
\* driver that is neither shutting down nor released.
C4_NoDeviceOutlivesDriver ==
    [][fault' = "none" =>
         \A d \in DrvSlots :
            /\ (/\ drv[d].alloc /\ ~drv'[d].alloc
                /\ \E c \in Callers : pc[c] = "u_release" /\ pc'[c] = "u_clear")
                  => drv[d].devices_tailq = <<>>
            /\ Len(drv'[d].devices_tailq) > Len(drv[d].devices_tailq) =>
                  (drv[d].alloc /\ ~drv[d].end_client_event_handling)]_vars

\* C5: at no point are two driver instances published (made the singleton by
\* an install and not released since).
C5_AtMostOnePublished == Cardinality(published) <= 1

\* C6: when msc_host_install returns after a step failed once it had allocated
\* driver state, the transport client it registered is deregistered, its
\* all_events_handled semaphore is deleted, its driver state is freed and is
\* not the singleton, and the error returned is the first one it met.
C6_FailedInstallRolledBack ==
    [][\A c \in Callers :
         (Returns(c, "install") /\ loc[c].driver # NULL /\ loc[c].failed) =>
            LET d == loc[c].driver
                h == drv[d].client_handle
                sm == drv[d].all_events_handled
            IN /\ h # NULL => ~clients'[h].registered
               /\ sm # NULL => allsem'[sm] = -1
               /\ ~drv'[d].alloc
               /\ s_msc_driver' # d
               /\ d \notin published'
               /\ loc[c].firstErr # "ESP_OK"
               /\ loc'[c].ret = loc[c].firstErr]_vars

\* C6 witness: an install that failed after allocating has rolled back and
\* returned its error.
C6_Witness ==
    \E c \in Callers :
        /\ pc[c] = "done"
        /\ loc[c].op = "install"
        /\ loc[c].failed
        /\ loc[c].ret # "ESP_OK"

\* The states in which msc_host_uninstall is to be refused: no driver
\* installed, the driver shutting down (flag set by another uninstall, which
\* may have released the state already), or a device in the collection.
C7_Refusable ==
    \/ s_msc_driver = NULL
    \/ ~drv[s_msc_driver].alloc
    \/ drv[s_msc_driver].end_client_event_handling
    \/ drv[s_msc_driver].devices_tailq # <<>>

\* C7: msc_host_uninstall called in such a state returns
\* ESP_ERR_INVALID_STATE and leaves the singleton, the driver state (flag,
\* collection), the transport clients and the semaphores as they were.
C7_RefusedUninstallChangesNothing ==
    [][\A c \in Callers :
         (C7_Refusable /\ Uninstall_Check(c)) =>
            /\ pc'[c] = "done"
            /\ loc'[c].ret = "ESP_ERR_INVALID_STATE"
            /\ UNCHANGED <<s_msc_driver, drv, clients, allsem>>]_vars

\* C9: when msc_host_install_device returns after a step failed once the device
\* was inserted, the device is in no collection, the interface release, the device
\* close and the transfer free have all been attempted, the device memory and
\* the transfer are freed, and the error returned is that of the first failing
\* step.
C9_FailedInstallDeviceUnwound ==
    [][\A c \in Callers :
         (Returns(c, "install_device") /\ loc[c].inserted /\ loc[c].failed) =>
            LET k == loc[c].device
            IN /\ Unregistered(drv', k)
               /\ loc'[c].attempted = {"release", "close", "free"}
               /\ ~dev'[k].alloc
               /\ k \notin usb'.xfers
               /\ loc[c].firstErr # "ESP_OK"
               /\ loc'[c].ret = loc[c].firstErr]_vars

\* C9 witness: an install-device that failed after the insertion has torn the
\* device down and returned its error.
C9_Witness ==
    \E c \in Callers :
        /\ pc[c] = "done"
        /\ loc[c].op = "install_device"
        /\ loc[c].inserted
        /\ loc[c].failed
        /\ loc[c].attempted = {"release", "close", "free"}
        /\ loc[c].ret # "ESP_OK"

\* C10: when msc_host_uninstall_device returns from a call on a device
\* handle, the device is in no collection, the interface release, the device
\* close and the transfer free have all been attempted, and the device memory
\* is freed.
C10_UninstallDeviceTearsDown ==
    [][\A c \in Callers :
         (Returns(c, "uninstall_device") /\ loc[c].device # NULL) =>
            LET k == loc[c].device
            IN /\ Unregistered(drv', k)
               /\ loc'[c].attempted = {"release", "close", "free"}
               /\ ~dev'[k].alloc]_vars

\* The step is a section of caller c between MSC_ENTER_CRITICAL and
\* MSC_EXIT_CRITICAL: lines 301-305 (install), 336-341 (uninstall), 360-364
\* (install-device), 156-159 (device teardown).
CriticalStep(c) ==
    \/ pc[c] = "i_publish" /\ pc'[c] # "i_publish"
    \/ pc[c] = "idle" /\ pc'[c] # "idle" /\ loc'[c].op = "uninstall"
    \/ pc[c] = "d_insert" /\ pc'[c] # "d_insert"
    \/ pc[c] = "dd_remove" /\ pc'[c] # "dd_remove"

\* The step publishes or clears the singleton pointer, inserts into or removes
\* from a device collection, or sets a shutdown flag.
RegistryMutated ==
    \/ s_msc_driver' # s_msc_driver
    \/ \E d \in DrvSlots :
          /\ drv[d].alloc /\ drv'[d].alloc
          /\ \/ drv'[d].devices_tailq # drv[d].devices_tailq
             \/ drv'[d].end_client_event_handling # drv[d].end_client_event_handling

\* C17: every registry mutation (insert into or remove from the device
\* collection, publishing or clearing the singleton pointer, setting the
\* shutdown flag) in install, uninstall, install-device and device teardown
\* is made inside a critical section of msc_lock.  (The sections are single
\* steps made of the statements between enter and exit, so they end on every
\* path and hold no transport call, wait, sleep or allocation.)
C17_MutationsUnderLock ==
    [][(RegistryMutated /\ fault' = "none") => \E c \in Callers : CriticalStep(c)]_vars

\* C20: msc_host_install_device called while no driver is installed returns
\* ESP_ERR_INVALID_STATE as an error value, without dereferencing the absent
\* driver state; and a failing call that did not insert its device removes
\* nothing from a device collection.
C20_InstallDeviceWithoutDriver ==
    [][\A c \in Callers :
          (/\ pc[c] = "dd_remove" /\ pc'[c] # "dd_remove"
           /\ loc[c].op = "install_device" /\ ~loc[c].inserted) =>
             /\ fault' = "none"
             /\ pc'[c] = "done"
             /\ s_msc_driver = NULL /\ loc[c].device # NULL =>
                   loc'[c].ret = "ESP_ERR_INVALID_STATE"
             /\ \A d \in DrvSlots : drv'[d].devices_tailq = drv[d].devices_tailq]_vars

\* C18: when two msc_host_install calls have run concurrently and both have
\* returned, one of them with ESP_OK, the driver is installed: the singleton
\* pointer is non-null, refers to a live driver state, and that driver's
\* transport client is registered.
C18_FailedInstallSparesWinner ==
    \A c1, c2 \in Callers :
        (/\ c1 # c2
         /\ pc[c1] = "done" /\ loc[c1].op = "install" /\ loc[c1].ret = "ESP_OK"
         /\ pc[c2] = "done" /\ loc[c2].op = "install") =>
            /\ s_msc_driver # NULL
            /\ drv[s_msc_driver].alloc
            /\ drv[s_msc_driver].client_handle # NULL
            /\ clients[drv[s_msc_driver].client_handle].registered

(***************************************************************************)
(* Event Dispatcher: properties (SpecDispatch)                             *)
(***************************************************************************)

\* client_event_cb finishes the lookup of a device-gone event
GoneLookedUp == disp.pc = "idle" /\ disp'.pc = "found" /\ fault' = "none"

\* client_event_cb returns from a device-gone event
GoneProcessed == disp.pc = "found" /\ disp'.pc = "idle" /\ fault' = "none"

\* The transport resources of device k are released.
Released(u, k) == k \notin u.claimed /\ k \notin u.open /\ k \notin u.xfers

\* C11: after the Event Dispatcher has processed a device-gone event whose
\* transport handle belongs to a device in the registry, that device is no
\* longer in the registry and its claimed interface, device handle and
\* transfer object have been released.
C11_DetachRemovesDevice ==
    [][(GoneProcessed /\ disp.msc_device # NULL) =>
          /\ Unregistered(drv', disp.msc_device)
          /\ Released(usb', disp.msc_device)]_vars

\* C11 as amended: processing a device-gone event whose transport handle
\* belongs to a device in the registry invokes the user callback with a
\* disconnected event carrying that device's handle, and the dispatcher leaves
\* the registry, the devices and their transport resources as they were.
C11_DetachOnlyNotifies ==
    [][/\ (GoneLookedUp \/ GoneProcessed) => UNCHANGED <<drv, dev, usb>>
       /\ (GoneProcessed /\ disp.msc_device # NULL) =>
             /\ cbk'.event = "MSC_DEVICE_DISCONNECTED"
             /\ cbk'.handle = disp.msc_device]_vars

\* A device-gone event for an installed device has been processed and the
\* device is still registered, open and claimed.
C11_Witness ==
    /\ disp.pc = "idle" /\ disp.event = "DEV_GONE" /\ disp.msc_device # NULL
    /\ cbk.event = "MSC_DEVICE_DISCONNECTED"
    /\ ~Unregistered(drv, disp.msc_device)
    /\ disp.msc_device \in usb.claimed
    /\ disp.msc_device \in handles

\* C12: on a device-gone event the lookup finds a device if and only if a
\* device with the event's transport handle is in the registry at the lookup,
\* and then finds such a device; the user callback is invoked with a
\* disconnected event if and only if the lookup found a device, and the event
\* carries that device's handle; so an event looked up after
\* msc_host_uninstall_device removed the device produces no callback for it.
C12_DisconnectedIffRegistered ==
    [][/\ GoneLookedUp =>
             LET q == drv[s_msc_driver].devices_tailq
                 m == disp'.msc_device
             IN /\ (m # NULL) <=>
                      (\E k \in DevSlots : InQueue(q, k) /\ dev[k].handle = disp'.hdl)
                /\ m # NULL => InQueue(q, m) /\ dev[m].handle = disp'.hdl
                /\ cbk'.event # "MSC_DEVICE_DISCONNECTED"
       /\ GoneProcessed =>
             /\ (cbk'.event = "MSC_DEVICE_DISCONNECTED") <=> (disp.msc_device # NULL)
             /\ disp.msc_device # NULL => cbk'.handle = disp.msc_device]_vars

\* msc_host_uninstall_device has returned ESP_OK and a device-gone event with
\* the handle of the freed device has been processed since without a callback.
C12_Witness ==
    /\ \E c \in Callers :
          pc[c] = "done" /\ loc[c].op = "uninstall_device" /\ loc[c].ret = "ESP_OK"
    /\ disp.pc = "idle" /\ disp.event = "DEV_GONE"
    /\ disp.hdl \in DevSlots /\ ~dev[disp.hdl].alloc
    /\ disp.msc_device = NULL
    /\ cbk = NoEvent

(***************************************************************************)
(* Descriptor Parser: properties (SpecParse)                               *)
(***************************************************************************)

\* The descriptors of the parsed configuration that start within wTotalLength
Within(i) ==
    i \in 1..Len(parse.desc) /\ OffsetOf(parse.desc, i) < parse.wTotalLength

\* The mass-storage / SCSI / bulk-only interfaces within wTotalLength
MscInterfaces ==
    {i \in 1..Len(parse.desc) :
        /\ Within(i)
        /\ parse.desc[i].bDescriptorType = 4
        /\ parse.desc[i].bInterfaceClass = 8
        /\ parse.desc[i].bInterfaceSubClass = 6
        /\ parse.desc[i].bInterfaceProtocol = 80}

\* The endpoint records within wTotalLength after the i-th descriptor
EndpointsAfter(i) ==
    {j \in 1..Len(parse.desc) :
        Within(j) /\ j > i /\ parse.desc[j].bDescriptorType = 5}

IsIn(j) == parse.desc[j].bEndpointAddress >= 128

\* The first two endpoint records after the first matching interface
FirstEp == Min(EndpointsAfter(Min(MscInterfaces)))

SecondEp == Min(EndpointsAfter(FirstEp))

\* The configuration holds a matching interface that is followed, before any
\* other interface, by one IN and one OUT endpoint record in either order.
C15_Applies ==
    /\ parse.op = "extract"
    /\ MscInterfaces # {}
    /\ EndpointsAfter(Min(MscInterfaces)) # {}
    /\ EndpointsAfter(FirstEp) # {}
    /\ \A j \in (Min(MscInterfaces) + 1)..SecondEp : parse.desc[j].bDescriptorType # 4
    /\ IsIn(FirstEp) # IsIn(SecondEp)

\* C15: for a configuration descriptor that holds, within wTotalLength, a
\* mass-storage/SCSI/bulk-only interface followed by one IN and one OUT
\* endpoint record in either order, extract_config_from_descriptor returns
\* ESP_OK with iface_num the number of that interface, bulk_in_ep and
\* bulk_in_mps the address and max packet size of the IN endpoint, and
\* bulk_out_ep the address of the OUT endpoint.
C15_ParserOrderIndependent ==
    C15_Applies =>
        LET in == IF IsIn(FirstEp) THEN FirstEp ELSE SecondEp
            out == IF IsIn(FirstEp) THEN SecondEp ELSE FirstEp
        IN /\ parse.ret = "ESP_OK"
           /\ parse.cfg.iface_num = parse.desc[Min(MscInterfaces)].bInterfaceNumber
           /\ parse.cfg.bulk_in_ep = parse.desc[in].bEndpointAddress
           /\ parse.cfg.bulk_in_mps = parse.desc[in].wMaxPacketSize
           /\ parse.cfg.bulk_out_ep = parse.desc[out].bEndpointAddress

\* A configuration that lists the OUT endpoint before the IN endpoint, after
\* a class-specific descriptor, has been extracted.
C15_Witness ==
    /\ C15_Applies
    /\ ~IsIn(FirstEp)
    /\ FirstEp > Min(MscInterfaces) + 1
    /\ parse.ret = "ESP_OK"
    /\ parse.cfg.bulk_in_ep = 129 /\ parse.cfg.bulk_out_ep = 2

\* C16: for a configuration descriptor with no mass-storage/SCSI/bulk-only
\* interface, classification returns false and extraction fails with
\* ESP_ERR_NOT_SUPPORTED as an error value; in both the traversal offset never
\* goes past wTotalLength.
C16_NoMatchNotSupported ==
    (parse.op # "none" /\ MscInterfaces = {}) =>
        /\ parse.op = "classify" => ~parse.found
        /\ parse.op = "extract" => parse.ret = "ESP_ERR_NOT_SUPPORTED"
        /\ parse.offset <= parse.wTotalLength

====
